---------------------------- MODULE Spec2Model ----------------------------
(***************************************************************************)
(* Model of tools/generate_data_static.py: the generator of the landscape  *)
(* document (data.yml) from the Eclipse SDV project list.                  *)
(*                                                                         *)
(* Python values are modelled as follows.                                  *)
(*   str    a sequence of one-character strings (so that split and strip   *)
(*          are computed, not assumed)                                     *)
(*   None   the value None below, which is no str                          *)
(*   dict   a function whose DOMAIN is the set of keys that are present;   *)
(*          a dict whose insertion order matters (projects_by_name,        *)
(*          categories, subcategories) is a sequence of [key, value]       *)
(*   list   a sequence                                                     *)
(***************************************************************************)
EXTENDS Naturals, Sequences, FiniteSets

VARIABLES
    pc,                 \* where the run stands
    args_input,         \* main: what loading the project source yields
    categories_file,    \* main: what the categories file holds
    projects,           \* the loaded project list
    static_categories,  \* the category plan (static mode)
    logo_dir,           \* TRUE iff logo_dir is not None
    projects_by_name,   \* static: ordered dict name -> project
    assigned,           \* static: set of assigned names
    output_categories,  \* static: the categories finished so far
    new_cat,            \* static: the category under construction
    new_sub,            \* static: the subcategory under construction
    cursor,             \* loop positions <<category, subcategory, item>>
    unassigned_items,   \* static: items of the Unmapped/Misc bucket
    categories,         \* dynamic: ordered dict label -> category
    landscape_data,     \* the document returned by the builder
    fetches,            \* the logo downloads so far: [url, ok], in order
    logos,              \* the file names written into the logo directory
    out_file            \* the output file: "absent", "partial" or "complete"

vars == <<pc, args_input, categories_file, projects, static_categories,
          logo_dir, projects_by_name, assigned, output_categories, new_cat,
          new_sub, cursor, unassigned_items, categories, landscape_data,
          fetches, logos, out_file>>

---------------------------------------------------------------------------
(* Bounds of the model.                                                    *)

MaxStaticProjects == 2
MaxDynamicProjects == 3
MaxPlanTokens == 5
MaxStrLen == 4

---------------------------------------------------------------------------
(* Python values.                                                          *)

None == <<"None">>

Truthy(v) == v # None /\ v # <<>>

Get(d, k) == IF k \in DOMAIN d THEN d[k] ELSE None

GetOr(d, k, default) == IF k \in DOMAIN d THEN d[k] ELSE default

Put(d, k, v) == [x \in DOMAIN d \cup {k} |-> IF x = k THEN v ELSE d[x]]

EmptyDict == [x \in {} |-> None]

Last(s) == s[Len(s)]

Front(s) == SubSeq(s, 1, Len(s) - 1)

SeqsUpTo(S, n) == UNION {[1..k -> S] : k \in 0..n}

(* Ordered dicts: a sequence of [key, value] in insertion order.           *)

HasKey(od, k) == \E i \in 1..Len(od) : od[i].key = k

Lookup(od, k) == od[CHOOSE i \in 1..Len(od) : od[i].key = k].value

(* od[k] = v: an existing key keeps its position and takes the new value.  *)
SetItem(od, k, v) ==
    IF HasKey(od, k)
    THEN [i \in 1..Len(od) |-> IF od[i].key = k THEN [key |-> k, value |-> v]
                                                ELSE od[i]]
    ELSE Append(od, [key |-> k, value |-> v])

(* setdefault with a missing key put first.                                *)
SetDefault_Front(od, k, v) ==
    IF HasKey(od, k) THEN od ELSE <<[key |-> k, value |-> v]>> \o od

(* od.setdefault(k, v): a missing key is appended, a present one is kept.  *)
SetDefault(od, k, v) ==
    IF HasKey(od, k) THEN od ELSE Append(od, [key |-> k, value |-> v])

Values(od) == [i \in 1..Len(od) |-> od[i].value]

(* str.split(sep, maxsplit); maxsplit = -1 is modelled by a maxsplit of    *)
(* Len(s), which no string exhausts.                                       *)
RECURSIVE Split(_, _, _)
Split(s, sep, maxsplit) ==
    IF maxsplit = 0 \/ ~\E i \in 1..Len(s) : s[i] = sep
    THEN <<s>>
    ELSE LET i == CHOOSE j \in 1..Len(s) :
                      s[j] = sep /\ \A k \in 1..(j - 1) : s[k] # sep
         IN  <<SubSeq(s, 1, i - 1)>>
                 \o Split(SubSeq(s, i + 1, Len(s)), sep, maxsplit - 1)

SplitAll(s, sep) == Split(s, sep, Len(s))

Whitespace == {" "}

(* str.strip() *)
RECURSIVE Strip(_)
Strip(s) ==
    IF s = <<>> THEN s
    ELSE IF Head(s) \in Whitespace THEN Strip(Tail(s))
    ELSE IF Last(s) \in Whitespace THEN Strip(Front(s))
    ELSE s

PLACEHOLDER == <<"p","l","a","c","e","h","o","l","d","e","r",".","s","v","g">>
UNKNOWN == <<"U","n","k","n","o","w","n">>
MISC == <<"M","i","s","c">>
UNMAPPED == <<"U","n","m","a","p","p","e","d">>

---------------------------------------------------------------------------
(* The logo resolver.                                                      *)

(* What a logo fetch can meet: fetches.get raising, raise_for_status      *)
(* raising, the file open/write raising, or none of these.                 *)
Outcomes == {"ok", "network_error", "http_error", "io_error"}

(* file_name = url.split("/")[-1].split("?")[0] *)
FileName(url) == Head(SplitAll(Last(SplitAll(url, "/")), "?"))

(* download_logo(url, dest) under the given outcome: the value returned    *)
(* and the files written.  An empty file name makes dest / file_name the   *)
(* directory itself, whose open("wb") raises.                              *)
download_logo(url, outcome) ==
    LET file_name == FileName(url)
    IN  IF outcome = "ok" /\ file_name # <<>>
        THEN [result |-> file_name, written |-> {file_name}]
        ELSE [result |-> PLACEHOLDER, written |-> {}]

(* The logo part with the test of logo_dir left out.                       *)
ResolveLogo_IgnoreDir(project, dir, outcome) ==
    LET logo_url == Get(project, "logo")
    IN  IF Truthy(logo_url)
        THEN LET d == download_logo(logo_url, outcome)
             IN  [logo |-> d.result, written |-> d.written,
                  gets |-> <<[url |-> logo_url, ok |-> d.written # {}]>>]
        ELSE [logo |-> PLACEHOLDER, gets |-> <<>>, written |-> {}]

(* The logo part of item construction (lines 127-135, 236-246): the value  *)
(* of item["logo"], the downloads made and the files written.              *)
ResolveLogo(project, dir, outcome) ==
    LET logo_url == Get(project, "logo")
    IN  IF dir /\ Truthy(logo_url)
        THEN LET d == download_logo(logo_url, outcome)
             IN  [logo |-> d.result, written |-> d.written,
                  gets |-> <<[url |-> logo_url, ok |-> d.written # {}]>>]
        ELSE IF Truthy(logo_url)
        THEN [logo |-> logo_url, gets |-> <<>>, written |-> {}]
        ELSE [logo |-> PLACEHOLDER, gets |-> <<>>, written |-> {}]

(* The fields of an item other than its logo.                              *)
ItemFields(project) ==
    LET item == [k \in {"name", "description", "homepage_url"} |->
                    CASE k = "name" -> Get(project, "name")
                      [] k = "description" -> Get(project, "summary")
                      [] k = "homepage_url" -> Get(project, "url")]
        state == Get(project, "state")
        item2 == IF Truthy(state) THEN Put(item, "project", state) ELSE item
        repos == GetOr(project, "github_repos", <<>>)
    IN  IF Len(repos) > 0 /\ Truthy(Get(repos[1], "url"))
        THEN Put(item2, "repo_url", repos[1]["url"])
        ELSE item2

(* build_item(project) of static mode.                                     *)
build_item(project, dir, outcome) ==
    Put(ItemFields(project), "logo", ResolveLogo(project, dir, outcome).logo)

(* The item record built inline by dynamic mode.                           *)
dynamic_item(proj, dir, outcome) ==
    Put(ItemFields(proj), "logo", ResolveLogo(proj, dir, outcome).logo)

(* The labels with the field split at every "/".                           *)
category_labels_NoMaxsplit(proj) ==
    LET cat_str == GetOr(proj, "category", UNKNOWN)
        raw == SplitAll(cat_str, "/")
        parts == [i \in 1..Len(raw) |-> Strip(raw[i])]
    IN  IF Len(parts) = 2 THEN <<parts[1], parts[2]>> ELSE <<parts[1], MISC>>

(* Dynamic mode: <<cat_name, subcat_name>> of a project.                   *)
category_labels(proj) ==
    LET cat_str == GetOr(proj, "category", UNKNOWN)
        raw == Split(cat_str, "/", 1)
        parts == [i \in 1..Len(raw) |-> Strip(raw[i])]
    IN  IF Len(parts) = 2 THEN <<parts[1], parts[2]>> ELSE <<parts[1], MISC>>

---------------------------------------------------------------------------
(* Inputs.                                                                 *)

Names == {<<"A">>, <<"B">>}

(* The logo URL of the project of a name, when it has one.                 *)
LogoOf(name) == <<"h", "/">> \o name

RunCategories == {<<"a">>, <<"a", " ", "/", "b">>}

(* A dict from optional values: None leaves the key out.                   *)
PutOpt(d, k, v) == IF v = None THEN d ELSE Put(d, k, v)

Project(name, logo, category, url) ==
    PutOpt(PutOpt(PutOpt(Put(EmptyDict, "name", name), "logo", logo),
                  "category", category), "url", url)

StaticProjects ==
    UNION {{Project(n, l, None, None) : l \in {None, LogoOf(n)}} : n \in Names}

DynamicProjects ==
    UNION {{Project(n, l, c, None) :
               l \in {None, LogoOf(n)}, c \in {None} \cup RunCategories} : n \in Names}

Homepage == <<"h", "/", "p">>

MainProjects ==
    UNION {{Project(n, l, None, u) : l \in {None, LogoOf(n)}, u \in {None, Homepage}} :
              n \in Names}

UrlChars == {"a", "b", "/", "?"}

(* The logo values tried: the empty string and the strings that begin as   *)
(* a URL does, with a letter.                                              *)
LogoStrings ==
    {<<>>} \cup {u \in SeqsUpTo(UrlChars, MaxStrLen) : Len(u) > 0 /\ u[1] = "a"}

CategoryChars == {"a", "/", " "}

(* The categories file, as the sequence of its entries: "cat" opens a      *)
(* category, "sub" a subcategory of the open category, any other entry is  *)
(* a project name listed in the open subcategory.                          *)
PlanTokens == {"cat", "sub", "A", "B"}

Digits == <<"1", "2", "3", "4", "5", "6", "7", "8", "9">>

WellFormed(toks) ==
    \A i \in 1..Len(toks) :
        /\ toks[i] = "sub" => \E j \in 1..(i - 1) : toks[j] = "cat"
        /\ toks[i] \notin {"cat", "sub"} =>
              \E j \in 1..(i - 1) :
                  toks[j] = "sub" /\ \A k \in (j + 1)..(i - 1) : toks[k] # "cat"

(* The list load_static_categories returns for a well-formed file.  A      *)
(* category without subcategory has no "subcategories" key, a subcategory  *)
(* without name no "items" key.                                            *)
RECURSIVE PlanOf(_)
PlanOf(toks) ==
    IF toks = <<>> THEN <<>>
    ELSE LET plan == PlanOf(Front(toks))
             t == Last(toks)
             n == Len(plan)
             cat == plan[n]
             subs == GetOr(cat, "subcategories", <<>>)
             m == Len(subs)
             sub == subs[m]
         IN  IF t = "cat"
             THEN Append(plan, Put(EmptyDict, "name", <<"c", Digits[n + 1]>>))
             ELSE IF t = "sub"
             THEN [plan EXCEPT ![n] = Put(cat, "subcategories",
                      Append(subs, Put(EmptyDict, "name", <<"s", Digits[m + 1]>>)))]
             ELSE [plan EXCEPT ![n] = Put(cat, "subcategories",
                      [subs EXCEPT ![m] = Put(sub, "items",
                          Append(GetOr(sub, "items", <<>>), <<t>>))])]

PlansUpTo(n) == {PlanOf(toks) : toks \in {x \in SeqsUpTo(PlanTokens, n) : WellFormed(x)}}

Plans == PlansUpTo(MaxPlanTokens)

(* The plans of the runs of main, which adds to the builders only the      *)
(* loaders and the write: the plans of up to one listed name.              *)
MainPlans == PlansUpTo(MaxPlanTokens - 2)

---------------------------------------------------------------------------
(* build_landscape_from_static                                             *)

(* {p.get("name"): p for p in projects} *)
RECURSIVE ProjectsByName(_)
ProjectsByName(ps) ==
    IF ps = <<>> THEN <<>>
    ELSE SetItem(ProjectsByName(Front(ps)), Get(Last(ps), "name"), Last(ps))

CurCat == static_categories[cursor[1]]
CurSubs == GetOr(CurCat, "subcategories", <<>>)
CurSub == CurSubs[cursor[2]]
CurItems == GetOr(CurSub, "items", <<>>)

(* Lines 102-110: the lookup, the assigned set, the logo directory.        *)
StaticStart ==
    /\ pc = "static_start"
    /\ \E mkdir \in {"ok", "os_error"} :
          IF logo_dir /\ mkdir = "os_error"
          THEN /\ pc' = "error"
               /\ UNCHANGED <<projects_by_name, assigned, output_categories, cursor>>
          ELSE /\ pc' = "static"
               /\ projects_by_name' = ProjectsByName(projects)
               /\ assigned' = {}
               /\ output_categories' = <<>>
               /\ cursor' = <<1, 0, 0>>
    /\ UNCHANGED <<args_input, categories_file, projects, static_categories,
                   logo_dir, new_cat, new_sub, unassigned_items, categories,
                   landscape_data, fetches, logos, out_file>>

(* Lines 139-141: the next category of the plan is opened.                 *)
StaticBeginCat ==
    /\ pc = "static"
    /\ cursor[2] = 0
    /\ cursor[1] <= Len(static_categories)
    /\ new_cat' = [name |-> GetOr(CurCat, "name", <<>>), subcategories |-> <<>>]
    /\ cursor' = <<cursor[1], 1, 0>>
    /\ UNCHANGED <<pc, args_input, categories_file, projects, static_categories,
                   logo_dir, projects_by_name, assigned, output_categories,
                   new_sub, unassigned_items, categories, landscape_data,
                   fetches, logos, out_file>>

(* Lines 142-144: the next subcategory of the category is opened.          *)
StaticBeginSub ==
    /\ pc = "static"
    /\ cursor[2] >= 1
    /\ cursor[3] = 0
    /\ cursor[2] <= Len(CurSubs)
    /\ new_sub' = [name |-> GetOr(CurSub, "name", <<>>), items |-> <<>>]
    /\ cursor' = <<cursor[1], cursor[2], 1>>
    /\ UNCHANGED <<pc, args_input, categories_file, projects, static_categories,
                   logo_dir, projects_by_name, assigned, output_categories,
                   new_cat, unassigned_items, categories, landscape_data,
                   fetches, logos, out_file>>

(* Whether the lookup yields a project for the name (line 146-147): the    *)
(* name is a key and its dict is not empty.                                *)
Found(by_name, proj_name) ==
    HasKey(by_name, proj_name) /\ DOMAIN Lookup(by_name, proj_name) # {}

(* The name is not marked.                                                 *)
MarkAssigned_Forget(names, proj_name) == names

(* Line 149: assigned.add(proj_name) *)
MarkAssigned(names, proj_name) == names \cup {proj_name}

(* The item is put first.                                                  *)
AppendItem_Front(items, item) == <<item>> \o items

(* Lines 148, 157: items.append(item) *)
AppendItem(items, item) == Append(items, item)

(* Lines 145-149: one name of the subcategory's list.                      *)
StaticItem ==
    /\ pc = "static"
    /\ cursor[3] >= 1
    /\ cursor[3] <= Len(CurItems)
    /\ \E outcome \in Outcomes :
          LET proj_name == CurItems[cursor[3]]
          IN  IF Found(projects_by_name, proj_name)
              THEN LET proj_data == Lookup(projects_by_name, proj_name)
                       r == ResolveLogo(proj_data, logo_dir, outcome)
                   IN  /\ new_sub' = [new_sub EXCEPT !.items =
                              AppendItem(@, build_item(proj_data, logo_dir, outcome))]
                       /\ assigned' = MarkAssigned(assigned, proj_name)
                       /\ fetches' = fetches \o r.gets
                       /\ logos' = logos \cup r.written
              ELSE UNCHANGED <<new_sub, assigned, fetches, logos>>
    /\ cursor' = <<cursor[1], cursor[2], cursor[3] + 1>>
    /\ UNCHANGED <<pc, args_input, categories_file, projects, static_categories,
                   logo_dir, projects_by_name, output_categories, new_cat,
                   unassigned_items, categories, landscape_data, out_file>>

(* Line 150: the subcategory is closed.                                    *)
StaticEndSub ==
    /\ pc = "static"
    /\ cursor[3] >= 1
    /\ cursor[3] > Len(CurItems)
    /\ new_cat' = [new_cat EXCEPT !.subcategories = Append(@, new_sub)]
    /\ cursor' = <<cursor[1], cursor[2] + 1, 0>>
    /\ UNCHANGED <<pc, args_input, categories_file, projects, static_categories,
                   logo_dir, projects_by_name, assigned, output_categories,
                   new_sub, unassigned_items, categories, landscape_data,
                   fetches, logos, out_file>>

(* Line 151: the category is closed.                                       *)
StaticEndCat ==
    /\ pc = "static"
    /\ cursor[2] >= 1
    /\ cursor[3] = 0
    /\ cursor[2] > Len(CurSubs)
    /\ output_categories' = Append(output_categories, new_cat)
    /\ cursor' = <<cursor[1] + 1, 0, 0>>
    /\ UNCHANGED <<pc, args_input, categories_file, projects, static_categories,
                   logo_dir, projects_by_name, assigned, new_cat, new_sub,
                   unassigned_items, categories, landscape_data, fetches,
                   logos, out_file>>

(* Line 154: the plan is exhausted.                                        *)
StaticPlanDone ==
    /\ pc = "static"
    /\ cursor[2] = 0
    /\ cursor[1] > Len(static_categories)
    /\ pc' = "unassigned"
    /\ unassigned_items' = <<>>
    /\ cursor' = <<1, 0, 0>>
    /\ UNCHANGED <<args_input, categories_file, projects, static_categories,
                   logo_dir, projects_by_name, assigned, output_categories,
                   new_cat, new_sub, categories, landscape_data, fetches,
                   logos, out_file>>

(* Lines 155-157: one entry of projects_by_name.                           *)
StaticUnassigned ==
    /\ pc = "unassigned"
    /\ cursor[1] <= Len(projects_by_name)
    /\ \E outcome \in Outcomes :
          LET proj_name == projects_by_name[cursor[1]].key
              proj_data == projects_by_name[cursor[1]].value
              r == ResolveLogo(proj_data, logo_dir, outcome)
          IN  IF proj_name \notin assigned
              THEN /\ unassigned_items' =
                          AppendItem(unassigned_items, build_item(proj_data, logo_dir, outcome))
                   /\ fetches' = fetches \o r.gets
                   /\ logos' = logos \cup r.written
              ELSE UNCHANGED <<unassigned_items, fetches, logos>>
    /\ cursor' = <<cursor[1] + 1, 0, 0>>
    /\ UNCHANGED <<pc, args_input, categories_file, projects, static_categories,
                   logo_dir, projects_by_name, assigned, output_categories,
                   new_cat, new_sub, categories, landscape_data, out_file>>

(* The Unmapped category of lines 160-168.                                 *)
MiscCategory(items) ==
    [name |-> UNMAPPED, subcategories |-> <<[name |-> MISC, items |-> items]>>]

(* The Unmapped category is appended even when empty.                      *)
WithUnmapped_Always(cats, items) == Append(cats, MiscCategory(items))

(* Lines 159-169: the Unmapped category is appended when it has items.     *)
WithUnmapped(cats, items) ==
    IF Len(items) > 0 THEN Append(cats, MiscCategory(items)) ELSE cats

(* Lines 159-171.                                                          *)
StaticReturn ==
    /\ pc = "unassigned"
    /\ cursor[1] > Len(projects_by_name)
    /\ output_categories' = WithUnmapped(output_categories, unassigned_items)
    /\ landscape_data' = [categories |-> output_categories']
    /\ pc' = "static_done"
    /\ UNCHANGED <<args_input, categories_file, projects, static_categories,
                   logo_dir, projects_by_name, assigned, new_cat, new_sub,
                   cursor, unassigned_items, categories, fetches, logos,
                   out_file>>

---------------------------------------------------------------------------
(* build_landscape_from_dynamic                                            *)

(* Lines 190-194.                                                          *)
DynamicStart ==
    /\ pc = "dynamic_start"
    /\ \E mkdir \in {"ok", "os_error"} :
          IF logo_dir /\ mkdir = "os_error"
          THEN /\ pc' = "error"
               /\ UNCHANGED <<categories, cursor>>
          ELSE /\ pc' = "dynamic"
               /\ categories' = <<>>
               /\ cursor' = <<1, 0, 0>>
    /\ UNCHANGED <<args_input, categories_file, projects, static_categories,
                   logo_dir, projects_by_name, assigned, output_categories,
                   new_cat, new_sub, unassigned_items, landscape_data,
                   fetches, logos, out_file>>

(* The subcategory is assigned, not setdefault-ed: its items start anew.   *)
AddItem_Reset(cats, cat_name, subcat_name, item) ==
    LET cats1 == SetDefault(cats, cat_name,
                            [name |-> cat_name, subcategories |-> <<>>])
        category == Lookup(cats1, cat_name)
        subcats == SetItem(category.subcategories, subcat_name,
                           [name |-> subcat_name, items |-> <<>>])
        subcat == Lookup(subcats, subcat_name)
        subcat1 == [subcat EXCEPT !.items = Append(@, item)]
    IN  SetItem(cats1, cat_name,
                [category EXCEPT !.subcategories = SetItem(subcats, subcat_name, subcat1)])

(* Lines 206-214 and 249: the item is appended to the subcategory the      *)
(* labels name, either being created at the end when missing.              *)
AddItem(cats, cat_name, subcat_name, item) ==
    LET cats1 == SetDefault(cats, cat_name,
                            [name |-> cat_name, subcategories |-> <<>>])
        category == Lookup(cats1, cat_name)
        subcats == SetDefault(category.subcategories, subcat_name,
                              [name |-> subcat_name, items |-> <<>>])
        subcat == Lookup(subcats, subcat_name)
        subcat1 == [subcat EXCEPT !.items = Append(@, item)]
    IN  SetItem(cats1, cat_name,
                [category EXCEPT !.subcategories = SetItem(subcats, subcat_name, subcat1)])

(* Lines 196-249: one project.                                             *)
DynamicItem ==
    /\ pc = "dynamic"
    /\ cursor[1] <= Len(projects)
    /\ \E outcome \in Outcomes :
          LET proj == projects[cursor[1]]
              labels == category_labels(proj)
              r == ResolveLogo(proj, logo_dir, outcome)
          IN  /\ categories' = AddItem(categories, labels[1], labels[2],
                                       dynamic_item(proj, logo_dir, outcome))
              /\ fetches' = fetches \o r.gets
              /\ logos' = logos \cup r.written
    /\ cursor' = <<cursor[1] + 1, 0, 0>>
    /\ UNCHANGED <<pc, args_input, categories_file, projects, static_categories,
                   logo_dir, projects_by_name, assigned, output_categories,
                   new_cat, new_sub, unassigned_items, landscape_data, out_file>>

(* Lines 251-258: the nested dicts become lists.                           *)
CategoryList(cats) ==
    [i \in 1..Len(cats) |->
        [name |-> cats[i].value.name,
         subcategories |-> Values(cats[i].value.subcategories)]]

(* Lines 251-260.                                                          *)
DynamicReturn ==
    /\ pc = "dynamic"
    /\ cursor[1] > Len(projects)
    /\ landscape_data' = [categories |-> CategoryList(categories)]
    /\ pc' = "dynamic_done"
    /\ UNCHANGED <<args_input, categories_file, projects, static_categories,
                   logo_dir, projects_by_name, assigned, output_categories,
                   new_cat, new_sub, cursor, unassigned_items, categories,
                   fetches, logos, out_file>>

---------------------------------------------------------------------------
(* main                                                                    *)

(* main going on with no projects when the loader raises.                  *)
MainLoadProjects_Continue ==
    /\ pc = "main"
    /\ projects' = args_input.data
    /\ pc' = "select"
    /\ UNCHANGED <<args_input, categories_file, static_categories, logo_dir,
                   projects_by_name, assigned, output_categories, new_cat,
                   new_sub, cursor, unassigned_items, categories,
                   landscape_data, fetches, logos, out_file>>

(* Lines 285-289: load_projects_from_file or fetch_projects_from_api; an   *)
(* exception of either leaves main.                                        *)
MainLoadProjects ==
    /\ pc = "main"
    /\ IF args_input.ok
       THEN /\ projects' = args_input.data
            /\ pc' = "select"
       ELSE /\ pc' = "error"
            /\ UNCHANGED projects
    /\ UNCHANGED <<args_input, categories_file, static_categories, logo_dir,
                   projects_by_name, assigned, output_categories, new_cat,
                   new_sub, cursor, unassigned_items, categories,
                   landscape_data, fetches, logos, out_file>>

(* Lines 294-299: the categories file exists and is loaded.                *)
MainLoadCategories ==
    /\ pc = "select"
    /\ categories_file.exists
    /\ IF categories_file.ok
       THEN /\ static_categories' = categories_file.data
            /\ pc' = "static_start"
       ELSE /\ pc' = "error"
            /\ UNCHANGED static_categories
    /\ UNCHANGED <<args_input, categories_file, projects, logo_dir,
                   projects_by_name, assigned, output_categories, new_cat,
                   new_sub, cursor, unassigned_items, categories,
                   landscape_data, fetches, logos, out_file>>

(* Lines 300-304: no categories file.                                      *)
MainDynamic ==
    /\ pc = "select"
    /\ ~categories_file.exists
    /\ pc' = "dynamic_start"
    /\ UNCHANGED <<args_input, categories_file, projects, static_categories,
                   logo_dir, projects_by_name, assigned, output_categories,
                   new_cat, new_sub, cursor, unassigned_items, categories,
                   landscape_data, fetches, logos, out_file>>

(* Lines 306-316: the output file is opened for writing and the document   *)
(* dumped into it.                                                         *)
MainWrite ==
    /\ pc \in {"static_done", "dynamic_done"}
    /\ \E w \in {"ok", "open_error", "dump_error"} :
          /\ out_file' = CASE w = "ok" -> "complete"
                           [] w = "open_error" -> out_file
                           [] w = "dump_error" -> "partial"
          /\ pc' = IF w = "ok" THEN "done" ELSE "error"
    /\ UNCHANGED <<args_input, categories_file, projects, static_categories,
                   logo_dir, projects_by_name, assigned, output_categories,
                   new_cat, new_sub, cursor, unassigned_items, categories,
                   landscape_data, fetches, logos>>

---------------------------------------------------------------------------
(* Specifications.                                                         *)

(* The values the variables of a run hold before the run sets them.        *)
Fresh ==
    /\ projects_by_name = <<>>
    /\ assigned = {}
    /\ output_categories = <<>>
    /\ new_cat = EmptyDict
    /\ new_sub = EmptyDict
    /\ cursor = <<0, 0, 0>>
    /\ unassigned_items = <<>>
    /\ categories = <<>>
    /\ landscape_data = EmptyDict
    /\ fetches = <<>>
    /\ logos = {}
    /\ out_file = "absent"

NoSource == [ok |-> FALSE, data |-> <<>>]
NoFile == [exists |-> FALSE, ok |-> FALSE, data |-> <<>>]

(* A call of build_landscape_from_static(projects, plan, logo_dir).        *)
InitStaticCall(ps, plan, dir) ==
    /\ pc = "static_start"
    /\ projects = ps
    /\ static_categories = plan
    /\ logo_dir = dir
    /\ args_input = NoSource
    /\ categories_file = NoFile
    /\ Fresh

(* A call of build_landscape_from_dynamic(projects, logo_dir).             *)
InitDynamicCall(ps, dir) ==
    /\ pc = "dynamic_start"
    /\ projects = ps
    /\ static_categories = <<>>
    /\ logo_dir = dir
    /\ args_input = NoSource
    /\ categories_file = NoFile
    /\ Fresh

NextStatic ==
    \/ StaticStart
    \/ StaticBeginCat
    \/ StaticBeginSub
    \/ StaticItem
    \/ StaticEndSub
    \/ StaticEndCat
    \/ StaticPlanDone
    \/ StaticUnassigned
    \/ StaticReturn

NextDynamic ==
    \/ DynamicStart
    \/ DynamicItem
    \/ DynamicReturn

NextBuild == NextStatic \/ NextDynamic

(* Either builder, called on every project list and plan of the bounds.    *)
InitBuild ==
    \/ \E ps \in SeqsUpTo(StaticProjects, MaxStaticProjects), plan \in Plans, dir \in BOOLEAN :
          InitStaticCall(ps, plan, dir)
    \/ \E ps \in SeqsUpTo(DynamicProjects, MaxDynamicProjects), dir \in BOOLEAN :
          InitDynamicCall(ps, dir)

SpecBuild == InitBuild /\ [][NextBuild]_vars

---------------------------------------------------------------------------
Next ==
    \/ MainLoadProjects
    \/ MainLoadCategories
    \/ MainDynamic
    \/ NextBuild
    \/ MainWrite

(* A run of main on every project source and categories file of the        *)
(* bounds; main always passes a logo directory (line 292).                 *)
Init ==
    \E src \in {NoSource} \cup
                {[ok |-> TRUE, data |-> ps] : ps \in SeqsUpTo(MainProjects, MaxStaticProjects)},
       file \in {NoFile, [exists |-> TRUE, ok |-> FALSE, data |-> <<>>]} \cup
                {[exists |-> TRUE, ok |-> TRUE, data |-> plan] : plan \in MainPlans} :
        /\ pc = "main"
        /\ args_input = src
        /\ categories_file = file
        /\ projects = <<>>
        /\ static_categories = <<>>
        /\ logo_dir = TRUE
        /\ Fresh

Spec == Init /\ [][Next]_vars

(* Either builder on one project, of every logo value of the bounds.       *)
InitLogo ==
    \E l \in {None} \cup LogoStrings, dir \in BOOLEAN :
        LET ps == <<Project(<<"A">>, l, None, None)>>
        IN  \/ \E plan \in {<<>>, PlanOf(<<"cat", "sub", "A">>)} :
                  InitStaticCall(ps, plan, dir)
            \/ InitDynamicCall(ps, dir)

SpecLogo == InitLogo /\ [][NextBuild]_vars

(* The dynamic builder on one project, of every category value of the      *)
(* bounds.                                                                 *)
InitLabels ==
    \E c \in {None} \cup SeqsUpTo(CategoryChars, MaxStrLen) :
        InitDynamicCall(<<Project(<<"A">>, None, c, None)>>, FALSE)

SpecLabels == InitLabels /\ [][NextDynamic]_vars

---------------------------------------------------------------------------
(* What the claims speak of.                                               *)

RECURSIVE Concat(_)
Concat(ss) == IF Len(ss) = 0 THEN <<>> ELSE Head(ss) \o Concat(Tail(ss))

(* A sequence without the later repetitions of its elements.               *)
RECURSIVE Dedup(_)
Dedup(s) ==
    IF Len(s) = 0 THEN <<>>
    ELSE LET d == Dedup(Front(s))
         IN  IF \E i \in 1..Len(d) : d[i] = Last(s) THEN d ELSE Append(d, Last(s))

Count(s, x) == Cardinality({k \in 1..Len(s) : s[k] = x})

Doc == landscape_data.categories

ItemsOfCat(cat) ==
    Concat([j \in 1..Len(cat.subcategories) |-> cat.subcategories[j].items])

ItemsOf(cats) == Concat([i \in 1..Len(cats) |-> ItemsOfCat(cats[i])])

NamesOf(items) == [k \in 1..Len(items) |-> items[k]["name"]]

WithoutLogo(item) == [k \in DOMAIN item \ {"logo"} |-> item[k]]

ProjectNames == [i \in 1..Len(projects) |-> projects[i]["name"]]

InLookup(n) == \E i \in 1..Len(projects) : projects[i]["name"] = n

(* The last loaded project of a name.                                      *)
LastProject(n) ==
    projects[CHOOSE i \in 1..Len(projects) :
                /\ projects[i]["name"] = n
                /\ \A j \in (i + 1)..Len(projects) : projects[j]["name"] # n]

PlanSubs(c) == GetOr(static_categories[c], "subcategories", <<>>)

PlanItems(c, s) == GetOr(PlanSubs(c)[s], "items", <<>>)

(* Every name the plan lists, in the plan's order.                         *)
PlanRefs ==
    Concat([c \in 1..Len(static_categories) |->
               Concat([s \in 1..Len(PlanSubs(c)) |-> PlanItems(c, s)])])

(* What follows the plan's categories in the document.                     *)
UnmappedPart == SubSeq(Doc, Len(static_categories) + 1, Len(Doc))

(* The names of the loaded projects never marked assigned, in load order.  *)
UnassignedNames ==
    LET Free(n) == n \notin assigned IN SelectSeq(ProjectNames, Free)

(* The logo URLs of the projects of a list that have one.                  *)
LogosOf(ps) ==
    LET HasLogo(p) == Truthy(Get(p, "logo"))
        withLogo == SelectSeq(ps, HasLogo)
    IN  [i \in 1..Len(withLogo) |-> withLogo[i]["logo"]]

Urls(fs) == [i \in 1..Len(fs) |-> fs[i].url]

---------------------------------------------------------------------------
C2_PlanOrder ==
    pc = "static_done" =>
        /\ Len(Doc) \in {Len(static_categories), Len(static_categories) + 1}
        /\ \A c \in 1..Len(static_categories) :
              /\ Doc[c].name = static_categories[c]["name"]
              /\ Len(Doc[c].subcategories) = Len(PlanSubs(c))
              /\ \A s \in 1..Len(PlanSubs(c)) :
                    LET sub == Doc[c].subcategories[s]
                        expected == SelectSeq(PlanItems(c, s), InLookup)
                    IN  /\ sub.name = PlanSubs(c)[s]["name"]
                        /\ NamesOf(sub.items) = expected
                        /\ \A k \in 1..Len(sub.items) :
                              WithoutLogo(sub.items[k])
                                  = ItemFields(LastProject(expected[k]))

C2_Witness ==
    /\ pc = "static_done"
    /\ \E c \in 1..Len(static_categories) :
          /\ \E s \in 1..Len(PlanSubs(c)) :
                /\ Len(Doc[c].subcategories[s].items) >= 1
                /\ Len(PlanItems(c, s)) > Len(Doc[c].subcategories[s].items)
          /\ \E s \in 1..Len(PlanSubs(c)) : Len(Doc[c].subcategories[s].items) = 0

(* The shape of the Unmapped category for the given names.                 *)
UnmappedHolds(names) ==
    /\ Len(Doc) \in {Len(static_categories), Len(static_categories) + 1}
    /\ Len(Doc) = Len(static_categories) + 1 <=> Len(UnassignedNames) > 0
    /\ Len(UnassignedNames) > 0 =>
          /\ Last(Doc).name = UNMAPPED
          /\ Len(Last(Doc).subcategories) = 1
          /\ Last(Doc).subcategories[1].name = MISC
          /\ NamesOf(Last(Doc).subcategories[1].items) = names

C4_DynamicPlacement ==
    pc = "dynamic_done" =>
        /\ Len(ItemsOf(Doc)) = Len(projects)
        /\ \A c \in 1..Len(Doc) : \A s \in 1..Len(Doc[c].subcategories) :
              LET sub == Doc[c].subcategories[s]
                  Here(p) == category_labels(p) = <<Doc[c].name, sub.name>>
                  members == SelectSeq(projects, Here)
              IN  /\ Len(sub.items) = Len(members)
                  /\ \A k \in 1..Len(members) :
                        WithoutLogo(sub.items[k]) = ItemFields(members[k])

C4_Witness ==
    /\ pc = "dynamic_done"
    /\ Len(Doc) >= 2
    /\ \E c \in 1..Len(Doc) : \E s \in 1..Len(Doc[c].subcategories) :
          /\ Len(Doc[c].subcategories[s].items) = 2
          /\ Doc[c].subcategories[s].items[1]["name"]
                 # Doc[c].subcategories[s].items[2]["name"]

(* C5: dynamic mode, the categories are in the order in which their labels *)
(* first occur in the input, and so are the subcategories of a category;   *)
(* no label occurs twice at one level.                                     *)
C5_FirstOccurrence ==
    pc = "dynamic_done" =>
        LET labels == [i \in 1..Len(projects) |-> category_labels(projects[i])]
        IN  /\ [c \in 1..Len(Doc) |-> Doc[c].name]
                   = Dedup([i \in 1..Len(labels) |-> labels[i][1]])
            /\ \A c \in 1..Len(Doc) :
                  LET In(l) == l[1] = Doc[c].name
                      mine == SelectSeq(labels, In)
                  IN  [s \in 1..Len(Doc[c].subcategories) |->
                           Doc[c].subcategories[s].name]
                          = Dedup([i \in 1..Len(mine) |-> mine[i][2]])

C5_Witness ==
    /\ pc = "dynamic_done"
    /\ Len(projects) = 3
    /\ category_labels(projects[1]) = <<(<<"a">>), (<<"b">>)>>
    /\ category_labels(projects[2])[1] = UNKNOWN
    /\ category_labels(projects[3]) = <<(<<"a">>), MISC>>
    /\ Len(Doc) = 2

(* C9: with a logo directory a run fetches exactly once for each loaded    *)
(* project that has a logo URL, in iteration order, and without one it     *)
(* never fetches.  As stated it fails in static mode: a project the plan   *)
(* lists twice is fetched twice.                                           *)
C9_OneFetchPerProject ==
    /\ ~logo_dir => Len(fetches) = 0
    /\ logo_dir /\ pc \in {"static_done", "dynamic_done"} =>
          /\ Len(fetches) = Len(LogosOf(projects))
          /\ \A i \in 1..Len(fetches) :
                Count(Urls(fetches), fetches[i].url)
                    = Count(LogosOf(projects), fetches[i].url)
    /\ logo_dir /\ pc = "dynamic_done" => Urls(fetches) = LogosOf(projects)

(* C9 as amended: with a logo directory a run fetches exactly once for     *)
(* each item it builds from a project that has a logo URL, in the order in *)
(* which the items are built: in dynamic mode the loaded projects in load  *)
(* order; in static mode the plan's listings that are in the lookup, in    *)
(* plan order, then the distinct unassigned names.  Without a logo         *)
(* directory nothing is fetched.                                           *)
C9_OneFetchPerItem ==
    /\ ~logo_dir => Len(fetches) = 0
    /\ logo_dir /\ pc = "dynamic_done" => Urls(fetches) = LogosOf(projects)
    /\ logo_dir /\ pc = "static_done" =>
          LET built == SelectSeq(PlanRefs, InLookup) \o Dedup(UnassignedNames)
          IN  Urls(fetches) = LogosOf([k \in 1..Len(built) |-> LastProject(built[k])])

C9_Witness ==
    /\ pc = "static_done"
    /\ logo_dir
    /\ Len(fetches) > Len(LogosOf(projects))
    /\ \E i \in 1..Len(fetches) : ~fetches[i].ok

(* The last path segment of a URL: the path is what precedes the query.    *)
LastPathSegment(url) == Last(SplitAll(Head(SplitAll(url, "?")), "/"))

(* C6: resolving a logo never raises and always sets the logo field: to    *)
(* the URL when there is no logo directory, to the last path segment of    *)
(* the URL without its query when the download succeeds, to the            *)
(* placeholder when the URL is absent or empty or the download fails.      *)
C6_LogoTotal ==
    pc \in {"static_done", "dynamic_done"} =>
        /\ Len(ItemsOf(Doc)) = Len(projects)
        /\ \A k \in 1..Len(ItemsOf(Doc)) :
              LET item == ItemsOf(Doc)[k]
                  url == Get(projects[k], "logo")
              IN  /\ "logo" \in DOMAIN item
                  /\ item["logo"] =
                        IF ~Truthy(url) THEN PLACEHOLDER
                        ELSE IF ~logo_dir THEN url
                        ELSE IF fetches[k].ok THEN LastPathSegment(url)
                        ELSE PLACEHOLDER

(* C7: an item has no homepage_url (description) key when its project has  *)
(* no url (summary), and the project's value when it has one.              *)
C7_AbsentFieldsOmitted ==
    pc \in {"static_done", "dynamic_done"} =>
        \A k \in 1..Len(ItemsOf(Doc)) :
            LET item == ItemsOf(Doc)[k]
                From(field, key) ==
                    field \in DOMAIN item =>
                        \E i \in 1..Len(projects) :
                            /\ projects[i]["name"] = item["name"]
                            /\ key \in DOMAIN projects[i]
                            /\ projects[i][key] = item[field]
            IN  From("homepage_url", "url") /\ From("description", "summary")

LoadersOk == args_input.ok /\ (categories_file.exists => categories_file.ok)

Built == DOMAIN landscape_data # {}

FetchFailed == \E i \in 1..Len(fetches) : ~fetches[i].ok

(* C8: the output file is written only after the project source and the    *)
(* plan have loaded; a loader that fails ends the run in the error, with   *)
(* no output file; after a failed logo fetch the run still goes on to the  *)
(* write of the output file.                                               *)
C8_OutputAfterLoad ==
    /\ out_file # "absent" => LoadersOk /\ Built
    /\ ~args_input.ok => pc \in {"main", "error"} /\ out_file = "absent"
    /\ categories_file.exists /\ ~categories_file.ok =>
          pc \in {"main", "select", "error"} /\ out_file = "absent"
    /\ FetchFailed /\ pc = "error" => Built
    /\ FetchFailed /\ pc \notin {"done", "error"} => ENABLED Next

C8_Witness ==
    /\ pc = "error"
    /\ args_input.ok
    /\ Len(projects) > 0
    /\ categories_file.exists
    /\ ~categories_file.ok
    /\ out_file = "absent"

(* The string without the blanks at its ends.                              *)
Trim(s) ==
    LET solid == {i \in 1..Len(s) : s[i] # " "}
    IN  IF solid = {} THEN <<>>
        ELSE SubSeq(s, CHOOSE i \in solid : \A j \in solid : i <= j,
                       CHOOSE i \in solid : \A j \in solid : i >= j)

(* C10: the labels of a project are (Unknown, Misc) without a category     *)
(* field, (the trimmed field, Misc) when the field has no "/", and else    *)
(* the trimmed text before the first "/" and the trimmed text after it.    *)
C10_Labels ==
    pc = "dynamic_done" =>
        LET p == projects[1]
            s == p["category"]
            slashes == {i \in 1..Len(s) : s[i] = "/"}
            first == CHOOSE i \in slashes : \A j \in slashes : i <= j
            expected ==
                IF "category" \notin DOMAIN p THEN <<UNKNOWN, MISC>>
                ELSE IF slashes = {} THEN <<Trim(s), MISC>>
                ELSE <<Trim(SubSeq(s, 1, first - 1)), Trim(SubSeq(s, first + 1, Len(s)))>>
        IN  /\ Len(Doc) = 1
            /\ Len(Doc[1].subcategories) = 1
            /\ Len(Doc[1].subcategories[1].items) = 1
            /\ <<Doc[1].name, Doc[1].subcategories[1].name>> = expected

C10_Witness ==
    /\ pc = "dynamic_done"
    /\ "category" \in DOMAIN projects[1]
    /\ projects[1]["category"] = <<"a", " ", "/", "/">>
    /\ Doc[1].name = <<"a">>
    /\ Doc[1].subcategories[1].name = <<"/">>

===========================================================================
